---- MODULE Spec2Model ----
(***************************************************************************)
(* A model of the bedrock library: the NBT tag codec (nbt.py), the         *)
(* subchunk block/palette codec and the chunk tile-entity save path        *)
(* (bedrock.py).                                                           *)
(*                                                                         *)
(* Conventions.  A Python bytes object is a sequence of integers 0..255.   *)
(* A Python str is a sequence of Unicode code points.  An operation that   *)
(* can raise returns a record whose field err is "" on success and the     *)
(* name of the Python exception otherwise.  Python indices are 0-based:    *)
(* idx = k means that k bytes have been consumed.                          *)
(***************************************************************************)
EXTENDS Integers, Sequences, FiniteSets, TLC

VARIABLES
  mode,      \* which part of the library the behaviour exercises
  phase,     \* position inside the scenario
  tag,       \* nbt: the tag tree handed to nbt.encode
  wire,      \* nbt: result of nbt.encode / DataWriter.putString ([err, data])
  back,      \* nbt: result of nbt.decode over wire.data ([err, tag, idx])
  cut,       \* result of decoding the buffer with its last byte removed
  str,       \* cursor: the string handed to DataWriter.putString
  kindByte,  \* kinds: the discriminant byte under test
  kindCtx,   \* kinds: where the discriminant sits ("top", "compound", "list")
  vol,       \* subchunk: the input volume (SubChunk.blocks before save)
  packed,    \* subchunk: result of _savePalette and _saveBlocks
  sbuf,      \* subchunk: the value SubChunk.save hands to ldb.put ([err, data])
  loaded,    \* subchunk: result of SubChunk.__init__ over sbuf.data
  heap,      \* chunk: the Block objects, each with its nbt attribute
  chunk,     \* chunk: the Chunk object: x, z, number of subchunks, and the
             \*        Block object each cell refers to
  written,   \* chunk: what the latest _saveTileEntities wrote
  saves      \* chunk: number of Chunk.save calls so far

vars == <<mode, phase, tag, wire, back, cut, str, kindByte, kindCtx,
          vol, packed, sbuf, loaded, heap, chunk, written, saves>>

----------------------------------------------------------------------------
(* Python sequence helpers *)

Min(a, b) == IF a < b THEN a ELSE b
Max(a, b) == IF a > b THEN a ELSE b

\* data[lo:hi] with 0 <= lo: the slice is clamped to the sequence.
Slice(data, lo, hi) ==
  IF Min(hi, Len(data)) <= lo THEN <<>>
  ELSE SubSeq(data, lo + 1, Min(hi, Len(data)))

\* A sequence given by a rule, computed once and held as a value (a Python
\* list or array) instead of being recomputed at every access.
List(seq) == seq \o <<>>

\* list.index(x): position of the first element equal to x, -1 if absent
\* (Python raises ValueError there).
IndexOf(seq, x) ==
  IF \E i \in 1..Len(seq) : seq[i] = x
  THEN (CHOOSE i \in 1..Len(seq) : seq[i] = x /\ \A j \in 1..(i - 1) : seq[j] # x) - 1
  ELSE -1

----------------------------------------------------------------------------
(* struct: little-endian fixed-width integers *)

\* the n low bytes of v, least significant first (two's complement for v < 0)
RECURSIVE LEBytes(_, _)
LEBytes(v, n) == IF n = 0 THEN <<>> ELSE <<v % 256>> \o LEBytes(v \div 256, n - 1)

\* value of an unsigned little-endian byte string
RECURSIVE ULE(_)
ULE(bs) == IF bs = <<>> THEN 0 ELSE bs[1] + 256 * ULE(Tail(bs))

\* value of a signed little-endian byte string (non-empty), accumulated from
\* the most significant byte down
RECURSIVE SLEFrom(_, _, _)
SLEFrom(bs, k, acc) == IF k = 0 THEN acc ELSE SLEFrom(bs, k - 1, acc * 256 + bs[k])

SLE(bs) ==
  LET n == Len(bs)
  IN  SLEFrom(bs, n - 1, IF bs[n] >= 128 THEN bs[n] - 256 ELSE bs[n])

\* fmt = [None, "b", "h", None, "i", None, None, None, "q"]
Fmt(size) ==
  CASE size = 1 -> "b" [] size = 2 -> "h" [] size = 4 -> "i" [] size = 8 -> "q"
    [] OTHER -> "None"

\* struct.pack range check of format f.  The values of the model are
\* 32-bit Java integers, so "i" and "q" accept all of them.
FitsFmt(f, v) ==
  CASE f = "b" -> v \in -128..127
    [] f = "h" -> v \in -32768..32767
    [] f = "B" -> v \in 0..255
    [] OTHER -> TRUE

----------------------------------------------------------------------------
(* str.encode("utf-8") and bytes.decode("utf-8") *)

Utf8Char(c) ==
  IF c < 128 THEN <<c>>
  ELSE IF c < 2048 THEN <<192 + (c \div 64), 128 + (c % 64)>>
  ELSE IF c < 65536
    THEN <<224 + (c \div 4096), 128 + ((c \div 64) % 64), 128 + (c % 64)>>
  ELSE <<240 + (c \div 262144), 128 + ((c \div 4096) % 64),
         128 + ((c \div 64) % 64), 128 + (c % 64)>>

RECURSIVE Utf8Encode(_)
Utf8Encode(s) == IF s = <<>> THEN <<>> ELSE Utf8Char(Head(s)) \o Utf8Encode(Tail(s))

IsCont(bs, i) == i <= Len(bs) /\ bs[i] \in 128..191

\* Strict decoding from position i (1-based) on: [err, str].  Overlong forms,
\* surrogates, stray continuation bytes and cut sequences are errors.
RECURSIVE Utf8DecodeFrom(_, _, _)
Utf8DecodeFrom(bs, i, acc) ==
  IF i > Len(bs) THEN [err |-> "", str |-> acc]
  ELSE LET b == bs[i]
           bad == [err |-> "UnicodeDecodeError", str |-> <<>>]
       IN  IF b < 128 THEN Utf8DecodeFrom(bs, i + 1, Append(acc, b))
           ELSE IF b \in 194..223 THEN
             IF IsCont(bs, i + 1)
             THEN Utf8DecodeFrom(bs, i + 2, Append(acc, (b - 192) * 64 + (bs[i + 1] - 128)))
             ELSE bad
           ELSE IF b \in 224..239 THEN
             IF /\ IsCont(bs, i + 1) /\ IsCont(bs, i + 2)
                /\ (b = 224 => bs[i + 1] >= 160)
                /\ (b = 237 => bs[i + 1] <= 159)
             THEN Utf8DecodeFrom(bs, i + 3,
                    Append(acc, (b - 224) * 4096 + (bs[i + 1] - 128) * 64 + (bs[i + 2] - 128)))
             ELSE bad
           ELSE IF b \in 240..244 THEN
             IF /\ IsCont(bs, i + 1) /\ IsCont(bs, i + 2) /\ IsCont(bs, i + 3)
                /\ (b = 240 => bs[i + 1] >= 144)
                /\ (b = 244 => bs[i + 1] <= 143)
             THEN Utf8DecodeFrom(bs, i + 4,
                    Append(acc, (b - 240) * 262144 + (bs[i + 1] - 128) * 4096
                                + (bs[i + 2] - 128) * 64 + (bs[i + 3] - 128)))
             ELSE bad
           ELSE bad

Utf8Decode(bs) == Utf8DecodeFrom(bs, 1, <<>>)

----------------------------------------------------------------------------
(* nbt.DataReader and nbt.DataWriter *)

\* struct.pack("<Ns", b): b cut to N bytes, or padded with zero bytes
PackS(n, bs) ==
  [i \in 1..n |-> IF i <= Len(bs) THEN bs[i] ELSE 0]

\* pop as it would be if a short slice were padded with zero bytes instead
\* of being refused by struct.unpack
popPadded(data, idx, size) ==
  LET bs == Slice(data, idx, idx + size)
  IN  [err |-> "",
       val |-> SLE([k \in 1..size |-> IF k <= Len(bs) THEN bs[k] ELSE 0]),
       idx |-> idx + size]

\* DataReader.pop(size) at cursor idx: [err, val, idx]
pop(data, idx, size) ==
  LET bs == Slice(data, idx, idx + size)
  IN  IF Len(bs) # size
      THEN [err |-> "struct.error", val |-> 0, idx |-> idx]
      ELSE [err |-> "", val |-> SLE(bs), idx |-> idx + size]

\* DataReader.popString() at cursor idx: [err, str, idx]
popString(data, idx) ==
  LET sz == pop(data, idx, 2)
      bs == Slice(data, sz.idx, sz.idx + sz.val)
      u  == Utf8Decode(bs)
  IN  IF sz.err # "" THEN [err |-> sz.err, str |-> <<>>, idx |-> idx]
      ELSE IF sz.val < 0 \/ Len(bs) # sz.val
        THEN [err |-> "struct.error", str |-> <<>>, idx |-> sz.idx]
      ELSE IF u.err # "" THEN [err |-> u.err, str |-> <<>>, idx |-> sz.idx + sz.val]
      ELSE [err |-> "", str |-> u.str, idx |-> sz.idx + sz.val]

\* DataReader.finished()
finished(data, idx) == idx >= Len(data)

\* DataWriter.put(size, value) onto the buffer data: [err, data]
put(data, size, v) ==
  IF FitsFmt(Fmt(size), v)
  THEN [err |-> "", data |-> data \o LEBytes(v, size)]
  ELSE [err |-> "struct.error", data |-> data]

\* DataWriter.putString(string): the prefix is len(string), the number of
\* characters, and the bytes are packed with that same count.
putString(data, s) ==
  LET p == put(data, 2, Len(s))
  IN  IF p.err # "" THEN p
      ELSE [err |-> "", data |-> p.data \o PackS(Len(s), Utf8Encode(s))]

----------------------------------------------------------------------------
(* nbt.TAG and its subclasses *)

\* A tag name is a str (children of a compound, stream roots) or an int (the
\* position of an element of a list or byte array).
StrName(s) == [isPos |-> FALSE, pos |-> 0, s |-> s]
PosName(i) == [isPos |-> TRUE, pos |-> i, s |-> <<>>]

\* A TAG object: ID is the class attribute, name and payload the instance
\* attributes.  The payload is num for the integer kinds, text for
\* TAG_String and items for the three container kinds.  TAG_List.itemID,
\* which only decode sets and nothing reads, is left out.
Tag(id, name, num, text, items) ==
  [ID |-> id, name |-> name, num |-> num, text |-> text, items |-> items]

TAG_Byte(name, v)       == Tag(1, name, v, <<>>, <<>>)
TAG_Short(name, v)      == Tag(2, name, v, <<>>, <<>>)
TAG_Int(name, v)        == Tag(3, name, v, <<>>, <<>>)
TAG_Long(name, v)       == Tag(4, name, v, <<>>, <<>>)
TAG_Byte_Array(name, l) == Tag(7, name, 0, <<>>, l)
TAG_String(name, s)     == Tag(8, name, 0, s, <<>>)
TAG_List(name, l)       == Tag(9, name, 0, <<>>, l)
TAG_Compound(name, l)   == Tag(10, name, 0, <<>>, l)

NoTag == Tag(0, StrName(<<>>), 0, <<>>, <<>>)

\* TAG.__eq__: name, payload and ID are equal; list payloads compare
\* element by element with the same __eq__, which is record equality here.
TagEq(a, b) ==
  /\ a.name = b.name
  /\ a.num = b.num /\ a.text = b.text /\ a.items = b.items
  /\ a.ID = b.ID

\* tags = [None for _ in range(13)] with tags[ID] = class; 0 stands for None
tags == [i \in 0..12 |-> IF i \in {1, 2, 3, 4, 7, 8, 9, 10} THEN i ELSE 0]

\* tags[i] with Python list indexing: a negative i counts from the end.
\* [err, cls]
tagsAt(i) ==
  IF i \in 0..12 THEN [err |-> "", cls |-> tags[i]]
  ELSE IF i \in -13..-1 THEN [err |-> "", cls |-> tags[13 + i]]
  ELSE [err |-> "IndexError", cls |-> 0]

\* tags.index(cls)
tagsIndex(cls) ==
  CHOOSE i \in 0..12 : tags[i] = cls /\ \A j \in 0..(i - 1) : tags[j] # cls

\* size of the fixed-width payload of the integer kinds
ScalarSize(id) == CASE id = 1 -> 1 [] id = 2 -> 2 [] id = 3 -> 4 [] id = 4 -> 8

RECURSIVE encodePayload(_, _), encodeItems(_, _, _), encodeChildren(_, _, _)

\* "for item in self.payload: item.encode(data)" from item k on
encodeItems(items, k, w) ==
  IF w.err # "" \/ k > Len(items) THEN w
  ELSE encodeItems(items, k + 1, encodePayload(items[k], w.data))

\* the loop of TAG_Compound.encode from item k on
encodeChildren(items, k, w) ==
  IF w.err # "" \/ k > Len(items) THEN w
  ELSE LET a == put(w.data, 1, items[k].ID)
           b == IF items[k].name.isPos
                THEN [err |-> "TypeError", data |-> a.data]
                ELSE putString(a.data, items[k].name.s)
       IN  IF a.err # "" THEN a
           ELSE IF b.err # "" THEN b
           ELSE encodeChildren(items, k + 1, encodePayload(items[k], b.data))

\* TAG_List.encode as it would be if an empty list were given the kind of
\* TAG_Byte
TAG_List_encode_ByteKind(t, data) ==
  LET a == IF t.items = <<>> THEN put(data, 1, 1)
           ELSE put(data, 1, tagsIndex(t.items[1].ID))
      b == put(a.data, 4, Len(t.items))
  IN  IF a.err # "" THEN a ELSE encodeItems(t.items, 1, b)

TAG_List_encode(t, data) ==
  LET a == IF t.items = <<>> THEN put(data, 1, 0)
           ELSE put(data, 1, tagsIndex(t.items[1].ID))
      b == put(a.data, 4, Len(t.items))
  IN  IF a.err # "" THEN a ELSE encodeItems(t.items, 1, b)

TAG_Byte_Array_encode(t, data) ==
  encodeItems(t.items, 1, put(data, 4, Len(t.items)))

TAG_Compound_encode(t, data) ==
  LET w == encodeChildren(t.items, 1, [err |-> "", data |-> data])
  IN  IF w.err # "" THEN w ELSE put(w.data, 1, 0)

\* t.encode(data), dispatched on the class of t: [err, data]
encodePayload(t, data) ==
  CASE t.ID \in {1, 2, 3, 4} -> put(data, ScalarSize(t.ID), t.num)
    [] t.ID = 8  -> putString(data, t.text)
    [] t.ID = 7  -> TAG_Byte_Array_encode(t, data)
    [] t.ID = 9  -> TAG_List_encode(t, data)
    [] t.ID = 10 -> TAG_Compound_encode(t, data)

\* nbt.encode(toEncode, data): [err, data]
encode(t, data) ==
  LET a == put(data, 1, t.ID)
      b == IF t.name.isPos THEN [err |-> "TypeError", data |-> a.data]
           ELSE putString(a.data, t.name.s)
  IN  IF a.err # "" THEN a
      ELSE IF b.err # "" THEN b
      ELSE encodePayload(t, b.data)

RECURSIVE construct(_, _, _, _), decodeItems(_, _, _, _, _, _), decodeChildren(_, _, _)
RECURSIVE decodeItemsNext(_, _, _, _, _, _), decodeChildrenNext(_, _, _)

Fail(e, idx) == [err |-> e, tag |-> NoTag, idx |-> idx]

\* payload.append(r) and the next round of the loop of decodeItems, r being
\* what cls(i, data) gave
decodeItemsNext(cls, size, i, acc, data, r) ==
  IF r.err # "" THEN [err |-> r.err, items |-> <<>>, idx |-> r.idx]
  ELSE decodeItems(cls, size, i + 1, Append(acc, r.tag), data, r.idx)

\* the loop "for i in range(size): payload.append(cls(i, data))" from i on:
\* [err, items, idx]
decodeItems(cls, size, i, acc, data, idx) ==
  IF i >= size THEN [err |-> "", items |-> acc, idx |-> idx]
  ELSE IF cls = 0 THEN [err |-> "TypeError", items |-> <<>>, idx |-> idx]
  ELSE decodeItemsNext(cls, size, i, acc, data, construct(cls, PosName(i), data, idx))

\* TAG_Byte_Array.decode: [err, items, idx]
TAG_Byte_Array_decode(data, idx) ==
  LET n == pop(data, idx, 4)
  IN  IF n.err # "" THEN [err |-> n.err, items |-> <<>>, idx |-> n.idx]
      ELSE decodeItems(1, n.val, 0, <<>>, data, n.idx)

\* TAG_List.decode: [err, items, idx].  tags[self.itemID] is evaluated for
\* each element, so an empty list never looks the kind up.
TAG_List_decode(data, idx) ==
  LET k == pop(data, idx, 1)
      n == pop(data, k.idx, 4)
      c == tagsAt(k.val)
  IN  IF k.err # "" THEN [err |-> k.err, items |-> <<>>, idx |-> k.idx]
      ELSE IF n.err # "" THEN [err |-> n.err, items |-> <<>>, idx |-> n.idx]
      ELSE IF n.val <= 0 THEN [err |-> "", items |-> <<>>, idx |-> n.idx]
      ELSE IF c.err # "" THEN [err |-> c.err, items |-> <<>>, idx |-> n.idx]
      ELSE decodeItems(c.cls, n.val, 0, <<>>, data, n.idx)

\* payload.append(r) and the next round of the while loop of
\* TAG_Compound.decode, r being what tags[tagID](name, data) gave
decodeChildrenNext(acc, data, r) ==
  IF r.err # "" THEN [err |-> r.err, items |-> <<>>, idx |-> r.idx]
  ELSE decodeChildren(Append(acc, r.tag), data, r.idx)

\* the while loop of TAG_Compound.decode, entered with the kind byte still
\* to be read at idx: [err, items, idx]
decodeChildren(acc, data, idx) ==
  LET k == pop(data, idx, 1)
      c == tagsAt(k.val)
      nm == popString(data, k.idx)
  IN  IF k.err # "" THEN [err |-> k.err, items |-> <<>>, idx |-> k.idx]
      ELSE IF k.val = 0 THEN [err |-> "", items |-> acc, idx |-> k.idx]
      ELSE IF c.err # "" THEN [err |-> c.err, items |-> <<>>, idx |-> k.idx]
      ELSE IF c.cls = 0 THEN [err |-> "NotImplementedError", items |-> <<>>, idx |-> k.idx]
      ELSE IF nm.err # "" THEN [err |-> nm.err, items |-> <<>>, idx |-> nm.idx]
      ELSE decodeChildrenNext(acc, data, construct(c.cls, StrName(nm.str), data, nm.idx))

TAG_Compound_decode(data, idx) == decodeChildren(<<>>, data, idx)

\* self.payload = self.decode(data) of a container class, v being what its
\* decode gave: [err, tag, idx]
constructed(cls, name, v) ==
  IF v.err # "" THEN Fail(v.err, v.idx)
  ELSE [err |-> "", tag |-> Tag(cls, name, 0, <<>>, v.items), idx |-> v.idx]

\* cls(name, data): TAG.__init__ with a DataReader runs the decode of the
\* class and stores the payload: [err, tag, idx]
construct(cls, name, data, idx) ==
  IF cls \in {1, 2, 3, 4} THEN
    LET v == pop(data, idx, ScalarSize(cls))
    IN  IF v.err # "" THEN Fail(v.err, v.idx)
        ELSE [err |-> "", tag |-> Tag(cls, name, v.val, <<>>, <<>>), idx |-> v.idx]
  ELSE IF cls = 8 THEN
    LET v == popString(data, idx)
    IN  IF v.err # "" THEN Fail(v.err, v.idx)
        ELSE [err |-> "", tag |-> TAG_String(name, v.str), idx |-> v.idx]
  ELSE IF cls = 7 THEN constructed(cls, name, TAG_Byte_Array_decode(data, idx))
  ELSE IF cls = 9 THEN constructed(cls, name, TAG_List_decode(data, idx))
  ELSE constructed(cls, name, TAG_Compound_decode(data, idx))

\* nbt.decode(data) with the reader at idx: [err, tag, idx]
decode(data, idx) ==
  LET k == pop(data, idx, 1)
      c == tagsAt(k.val)
      nm == popString(data, k.idx)
  IN  IF k.err # "" THEN Fail(k.err, k.idx)
      ELSE IF c.err # "" THEN Fail(c.err, k.idx)
      ELSE IF c.cls = 0 THEN Fail("NotImplementedError", k.idx)
      ELSE IF nm.err # "" THEN Fail(nm.err, nm.idx)
      ELSE construct(c.cls, StrName(nm.str), data, nm.idx)

----------------------------------------------------------------------------
(* 32-bit words of the block storage.  A Python int that holds a word is    *)
(* kept as two 16-bit limbs, word = hi * 65536 + lo, because the model's    *)
(* integers stop at 2^31 - 1; hi above 65535 is a word of more than 32 bits.*)

Word(hi, lo) == [hi |-> hi, lo |-> lo]

\* a | b on naturals
RECURSIVE BitOr(_, _)
BitOr(a, b) ==
  IF a = 0 THEN b
  ELSE IF b = 0 THEN a
  ELSE Max(a % 2, b % 2) + 2 * BitOr(a \div 2, b \div 2)

\* word << n, for n in 0..15
ShiftL(w, n) ==
  LET x == w.lo * (2 ^ n)
  IN  Word(w.hi * (2 ^ n) + (x \div 65536), x % 65536)

\* word >> n, for n in 0..31
ShiftR(w, n) ==
  IF n >= 16 THEN Word(0, w.hi \div (2 ^ (n - 16)))
  ELSE Word(w.hi \div (2 ^ n), (w.lo \div (2 ^ n)) + (w.hi % (2 ^ n)) * (2 ^ (16 - n)))

\* word | v, for a natural v below 2^31
WordOr(w, v) == Word(BitOr(w.hi, v \div 65536), BitOr(w.lo, v % 65536))

\* word & ((1 << n) - 1) as a number, for n in 1..30
MaskLow(w, n) ==
  IF n <= 16 THEN w.lo % (2 ^ n)
  ELSE w.lo + 65536 * (w.hi % (2 ^ (n - 16)))

\* struct.pack("<I", word): [err, data]
PackI(w) ==
  IF w.hi > 65535 THEN [err |-> "struct.error", data |-> <<>>]
  ELSE [err |-> "", data |-> <<w.lo % 256, w.lo \div 256, w.hi % 256, w.hi \div 256>>]

\* one word of struct.unpack("<I...", data): the word whose first byte is
\* data[at] (1-based)
UnpackI(data, at) ==
  Word(data[at + 2] + 256 * data[at + 3], data[at] + 256 * data[at + 1])

\* the logarithm rounded down instead of up
FloorLog2(n) == CHOOSE k \in 0..30 : 2 ^ k <= n /\ n < 2 ^ (k + 1)

\* max(int(np.ceil(np.log2(paletteSize))), 1) without the max: the least k
\* with 2^k >= n, for n in 1..2^30
CeilLog2(n) == CHOOSE k \in 0..30 : 2 ^ k >= n /\ (k = 0 \/ 2 ^ (k - 1) < n)

\* -(-a // b), the ceiling division of _loadBlocks and _saveBlocks
CeilDiv(a, b) == -((-a) \div b)

----------------------------------------------------------------------------
(* bedrock.SubChunk *)

\* blocks held by a subchunk: np.empty(4096), reshape(16, 16, 16)
NumBlocks == 4096
Side == 16

Coords == 0..(Side - 1)
Idx3 == Coords \X Coords \X Coords
FlatIdx == 0..(NumBlocks - 1)

\* the array left as it is, Y and Z not exchanged
swapaxesNone(arr) == [c \in Idx3 |-> arr[c]]

\* ndarray.swapaxes(1, 2) of a (16, 16, 16) array
swapaxes12(arr) == [c \in Idx3 |-> arr[<<c[1], c[3], c[2]>>]]

\* ndarray.reshape(4096) of a (16, 16, 16) array, C order
reshapeFlat(arr) ==
  [n \in FlatIdx |-> arr[<<n \div (Side * Side), (n \div Side) % Side, n % Side>>]]

\* ndarray.reshape(16, 16, 16) of a flat array, C order
reshape3(flat) == [c \in Idx3 |-> flat[c[1] * Side * Side + c[2] * Side + c[3]]]

\* Block(name, dv): the nbt attribute plays no part in the subchunk codec
Block(name, dv) == [name |-> name, dv |-> dv]

\* SubChunk.getBlock(x, y, z)
getBlock(blocks, x, y, z) == blocks[<<x, y, z>>]

\* the palette nbt generated for a block in _savePalette
PaletteTag(b) ==
  TAG_Compound(StrName(<<>>),
    <<TAG_String(StrName(<<110, 97, 109, 101>>), b.name),
      TAG_Short(StrName(<<118, 97, 108>>), b.dv)>>)

\* The loops below run over up to 4096 positions.  Each is written as a
\* function of the loop state and a range lo..hi-1 of iterations; a range of
\* more than one iteration is run as its first half followed by its second
\* half, the state of the first half being computed before the second half
\* starts.  The iterations are those of the code, in the order of the code.

\* one iteration of the loop of _savePalette: the block at flat position n
\* (0-based), with st = [palette, ids]
savePaletteStep(flat, n, st) ==
  LET block == PaletteTag(flat[n])
      pal   == IF \E k \in 1..Len(st.palette) : TagEq(st.palette[k], block)
               THEN st.palette ELSE Append(st.palette, block)
  IN  [palette |-> pal, ids |-> Append(st.ids, IndexOf(pal, block))]

RECURSIVE savePaletteLoop(_, _, _, _)
savePaletteLoop(flat, lo, hi, st) ==
  IF hi - lo = 1 THEN savePaletteStep(flat, lo, st)
  ELSE LET mid   == (lo + hi) \div 2
           first == savePaletteLoop(flat, lo, mid, st)
       IN  IF Len(first.ids) = mid THEN savePaletteLoop(flat, mid, hi, first)
           ELSE first

\* SubChunk._savePalette: [palette, ids], ids[n + 1] being blockIDs[n]
savePalette(blocks) ==
  savePaletteLoop(reshapeFlat(swapaxes12(blocks)), 0, NumBlocks,
                  [palette |-> <<>>, ids |-> <<>>])

\* one iteration of the inner loop of _saveBlocks: slot j of word i
saveWordStep(ids, bits, bpw, i, j, w) ==
  IF i * bpw + j < NumBlocks
  THEN WordOr(ShiftL(w, bits), ids[i * bpw + j + 1])
  ELSE w

\* the inner loop of _saveBlocks over the slots hi-1 down to lo of word i,
\* entered with the word w
RECURSIVE saveWordLoop(_, _, _, _, _, _, _)
saveWordLoop(ids, bits, bpw, i, lo, hi, w) ==
  IF hi - lo = 1 THEN saveWordStep(ids, bits, bpw, i, lo, w)
  ELSE LET mid   == (lo + hi) \div 2
           first == saveWordLoop(ids, bits, bpw, i, mid, hi, w)
       IN  IF first.hi >= 0 THEN saveWordLoop(ids, bits, bpw, i, lo, mid, first)
           ELSE first

\* the word i that _saveBlocks packs
saveWord(ids, bits, bpw, i) == saveWordLoop(ids, bits, bpw, i, 0, bpw, Word(0, 0))

\* SubChunk._saveBlocks(paletteSize, blockIDs): [err, data]
saveBlocks(paletteSize, ids) ==
  LET bits  == Max(CeilLog2(paletteSize), 1)
      bpw   == 32 \div bits
      nw    == CeilDiv(NumBlocks, bpw)
      words == List([i \in 1..nw |-> PackI(saveWord(ids, bits, bpw, i - 1))])
  IN  IF ~FitsFmt("B", bits * 2) \/ \E i \in 1..nw : words[i].err # ""
      THEN [err |-> "struct.error", data |-> <<>>]
      ELSE [err |-> "",
            data |-> <<bits * 2>> \o
                     [k \in 1..(4 * nw) |-> words[((k - 1) \div 4) + 1].data[((k - 1) % 4) + 1]]]

\* "for block in palette: data += nbt.encode(block)" from entry k on
RECURSIVE encodePalette(_, _, _)
RECURSIVE encodePaletteNext(_, _, _, _)

\* data += e and the next round, e being what nbt.encode(block) gave
encodePaletteNext(palette, k, w, e) ==
  IF e.err # "" THEN e
  ELSE encodePalette(palette, k + 1, [err |-> "", data |-> w.data \o e.data])

encodePalette(palette, k, w) ==
  IF w.err # "" \/ k > Len(palette) THEN w
  ELSE encodePaletteNext(palette, k, w, encode(palette[k], <<>>))

\* struct.pack("<BB", self.version, 1): [err, data]
saveHeader(version) ==
  IF FitsFmt("B", version) THEN [err |-> "", data |-> <<version, 1>>]
  ELSE [err |-> "struct.error", data |-> <<>>]

\* SubChunk.save from "data += self._saveBlocks(...)" on, hd being the
\* packed header, sp what _savePalette returned and sb what _saveBlocks
\* returned: [err, data]
saveData(hd, sp, sb) ==
  IF hd.err # "" THEN hd
  ELSE IF sb.err # "" THEN sb
  ELSE encodePalette(sp.palette, 1,
         [err |-> "", data |-> hd.data \o sb.data \o LEBytes(Len(sp.palette), 4)])

\* the value handed to ldb.put, with what _savePalette returned
saved(sp, w) == [err |-> w.err, data |-> w.data, palette |-> sp.palette, ids |-> sp.ids]

\* SubChunk.save after the call of _savePalette, sp being its result
saveRest(version, sp) ==
  saved(sp, saveData(saveHeader(version), sp, saveBlocks(Len(sp.palette), sp.ids)))

\* SubChunk.save: [err, data, palette, ids], data being the value handed to
\* ldb.put, palette and ids what _savePalette returned (kept for inspection)
save(version, blocks) == saveRest(version, savePalette(blocks))

\* the inner loop of _loadBlocks for one word: the word as it stands when
\* slot j is masked out, after the j shifts of the slots before it
RECURSIVE loadWord(_, _, _)
loadWord(w, bits, j) ==
  IF j = 0 THEN w
  ELSE IF j = 1 THEN ShiftR(w, bits)
  ELSE LET first == loadWord(w, bits, j \div 2)
       IN  IF first.hi >= 0 THEN loadWord(first, bits, j - (j \div 2)) ELSE first

\* SubChunk._loadBlocks(data): [err, blocks, rest], blocks[n + 1] being the
\* id at flat position n.  Every position below 4096 is assigned, since
\* numWords * blocksPerWord >= 4096.
loadBlocks(data) ==
  IF data = <<>> THEN [err |-> "IndexError", blocks |-> <<>>, rest |-> <<>>]
  ELSE
    LET bits == data[1] \div 2
        body == Tail(data)
    IN  IF bits = 0 THEN [err |-> "ZeroDivisionError", blocks |-> <<>>, rest |-> <<>>]
        ELSE
          LET bpw == 32 \div bits
          IN  IF bpw = 0 THEN [err |-> "ZeroDivisionError", blocks |-> <<>>, rest |-> <<>>]
              ELSE
                LET nw == CeilDiv(NumBlocks, bpw)
                IN  IF Len(Slice(body, 0, 4 * nw)) # 4 * nw
                    THEN [err |-> "struct.error", blocks |-> <<>>, rest |-> <<>>]
                    ELSE [err |-> "",
                          blocks |-> List([n \in 1..NumBlocks |->
                                       MaskLow(loadWord(UnpackI(body, 4 * ((n - 1) \div bpw) + 1),
                                                        bits, (n - 1) % bpw), bits)]),
                          rest |-> Slice(body, 4 * nw, Len(body))]

\* the loop of _loadPalette from entry k on: [err, palette]
RECURSIVE loadPaletteLoop(_, _, _, _, _)
RECURSIVE loadPaletteNext(_, _, _, _, _)

\* palette.append(d) and the next round, d being what nbt.decode gave
loadPaletteNext(data, k, n, acc, d) ==
  IF d.err # "" THEN [err |-> d.err, palette |-> <<>>]
  ELSE loadPaletteLoop(data, d.idx, k + 1, n, Append(acc, d.tag))

loadPaletteLoop(data, idx, k, n, acc) ==
  IF k >= n THEN [err |-> "", palette |-> acc]
  ELSE loadPaletteNext(data, k, n, acc, decode(data, idx))

\* SubChunk._loadPalette(data): [err, palette]
loadPalette(data) ==
  IF Len(Slice(data, 0, 4)) # 4 THEN [err |-> "struct.error", palette |-> <<>>]
  ELSE loadPaletteLoop(Slice(data, 4, Len(data)), 0, 0, ULE(Slice(data, 0, 4)), <<>>)

\* TAG.__getitem__(name) on a container payload: [err, tag]
getitem(t, name) ==
  IF \E k \in 1..Len(t.items) : t.items[k].name = name
  THEN [err |-> "",
        tag |-> t.items[CHOOSE k \in 1..Len(t.items) :
                          /\ t.items[k].name = name
                          /\ \A j \in 1..(k - 1) : t.items[j].name # name]]
  ELSE [err |-> "KeyError", tag |-> NoTag]

\* payload attribute of a tag, as Block(...) receives it
payloadOf(t) ==
  CASE t.ID \in {1, 2, 3, 4} -> t.num
    [] t.ID = 8 -> t.text
    [] OTHER -> t.items

LoadFail(e) == [err |-> e, blocks |-> <<>>, ids |-> <<>>, palette |-> <<>>]

\* the tail of SubChunk.__init__, with blocks and palette as _loadBlocks and
\* _loadPalette returned them: every id is resolved to Block(name, val) of
\* its palette entry, and the flat array is reshaped and its axes swapped
resolveBlocks(blocks, palette) ==
  LET bad == {n \in 1..NumBlocks : blocks[n] >= Len(palette)}
      noKey == {n \in 1..NumBlocks :
                  \/ getitem(palette[blocks[n] + 1], StrName(<<110, 97, 109, 101>>)).err # ""
                  \/ getitem(palette[blocks[n] + 1], StrName(<<118, 97, 108>>)).err # ""}
      flat == [n \in FlatIdx |->
                Block(payloadOf(getitem(palette[blocks[n + 1] + 1],
                                        StrName(<<110, 97, 109, 101>>)).tag),
                      payloadOf(getitem(palette[blocks[n + 1] + 1],
                                        StrName(<<118, 97, 108>>)).tag))]
  IN  IF bad # {} THEN LoadFail("IndexError")
      ELSE IF noKey # {} THEN LoadFail("KeyError")
      ELSE [err |-> "", blocks |-> swapaxes12(reshape3(flat)),
            ids |-> blocks, palette |-> palette]

\* SubChunk.__init__ from the call of _loadPalette on, lp being its result
loadResolve(lb, lp) ==
  IF lp.err # "" THEN LoadFail(lp.err) ELSE resolveBlocks(lb.blocks, lp.palette)

\* SubChunk.__init__ after the call of _loadBlocks, lb being its result
loadRest(lb) ==
  IF lb.err # "" THEN LoadFail(lb.err) ELSE loadResolve(lb, loadPalette(lb.rest))

\* SubChunk.__init__(db, x, z, y) over the value data stored under the
\* subchunk key: [err, blocks]; ids and palette are the locals blocks and
\* palette of __init__, kept for inspection.
load(data) ==
  IF Len(data) < 1 THEN LoadFail("IndexError")
  ELSE IF data[1] # 8 THEN LoadFail("NotImplementedError")
  ELSE IF Len(data) < 2 THEN LoadFail("IndexError")
  ELSE IF data[2] # 1 THEN LoadFail("NotImplementedError")
  ELSE loadRest(loadBlocks(Slice(data, 2, Len(data))))

----------------------------------------------------------------------------
(* bedrock.Chunk: tile entities *)

\* TAG_Compound.add(tag)
add(t, child) == [t EXCEPT !.items = Append(@, child)]

\* TAG_Compound.pop(name): [tag, rest], the first child of that name and the
\* compound without it; found is FALSE (None is returned) when there is none
tagPop(t, name) ==
  IF \E k \in 1..Len(t.items) : t.items[k].name = name
  THEN LET i == CHOOSE k \in 1..Len(t.items) :
                  /\ t.items[k].name = name
                  /\ \A j \in 1..(k - 1) : t.items[j].name # name
       IN  [found |-> TRUE, tag |-> t.items[i],
            rest |-> [t EXCEPT !.items = SubSeq(@, 1, i - 1) \o SubSeq(@, i + 1, Len(@))]]
  ELSE [found |-> FALSE, tag |-> NoTag, rest |-> t]

NameX == StrName(<<120>>)
NameY == StrName(<<121>>)
NameZ == StrName(<<122>>)

\* a Block object as far as tile entities go: its nbt attribute, None or a
\* compound
BlockObj(hasNbt, nbt) == [hasNbt |-> hasNbt, nbt |-> nbt]

\* The cells of the chunk are (x, y, z) with x, z in 0..15 and y counted
\* over all subchunks.  The tile-entity loops visit the subchunks in order
\* and in each x, then y, then z: cells in the order of this key.
CellKey(c) == (((c[2] \div Side) * Side + c[1]) * Side + (c[2] % Side)) * Side + c[3]

\* the cells of S in the order the loops of _saveTileEntities visit them
InVisitOrder(S) ==
  CHOOSE q \in [1..Cardinality(S) -> S] :
    \A i, j \in 1..Cardinality(S) : i < j => CellKey(q[i]) < CellKey(q[j])

\* the body of the loops of _saveTileEntities at cell c, with
\* st = [heap, w, records]: w is the DataWriter, records lists what was
\* handed to nbt.encode and for which cell
saveTileEntityStep(ch, c, st) ==
  LET o    == ch.cells[c]
      ax   == ch.x * Side + c[1]
      ay   == (c[2] \div Side) * Side + (c[2] % Side)
      az   == ch.z * Side + c[3]
      nbt1 == add(add(add(st.heap[o].nbt, TAG_Int(NameX, ax)),
                      TAG_Int(NameY, ay)), TAG_Int(NameZ, az))
      e    == encode(nbt1, st.w.data)
  IN  IF st.w.err # "" \/ c[2] \div Side >= ch.nsub \/ ~st.heap[o].hasNbt THEN st
      ELSE [heap |-> [st.heap EXCEPT ![o].nbt = nbt1],
            w |-> e,
            records |-> Append(st.records, [cell |-> <<ax, ay, az>>, tag |-> nbt1])]

RECURSIVE saveTileEntitiesLoop(_, _, _, _)
saveTileEntitiesLoop(ch, order, k, st) ==
  IF k > Len(order) THEN st
  ELSE saveTileEntitiesLoop(ch, order, k + 1, saveTileEntityStep(ch, order[k], st))

\* Chunk._saveTileEntities over the cells the model follows (every other
\* cell holds a block whose nbt is None): [heap, w, records]; w.data is the
\* value put under the tile-entity key unless w.err is set
saveTileEntities(ch, hp) ==
  saveTileEntitiesLoop(ch, InVisitOrder(DOMAIN ch.cells), 1,
    [heap |-> hp, w |-> [err |-> "", data |-> <<>>], records |-> <<>>])

\* the body of the loop of Chunk._loadTileEntities for the record d that
\* nbt.decode returned: x, y, z are popped and the rest becomes the nbt of
\* the block at that cell: [err, heap]
loadTileEntityStep(ch, hp, d) ==
  LET px == tagPop(d, NameX)
      py == tagPop(px.rest, NameY)
      pz == tagPop(py.rest, NameZ)
      c  == <<px.tag.num % Side, py.tag.num, pz.tag.num % Side>>
  IN  IF ~px.found \/ ~py.found \/ ~pz.found THEN [err |-> "AttributeError", heap |-> hp]
      ELSE IF c \notin DOMAIN ch.cells THEN [err |-> "AttributeError", heap |-> hp]
      ELSE IF c[2] \div Side >= ch.nsub THEN [err |-> "AttributeError", heap |-> hp]
      ELSE [err |-> "", heap |-> [hp EXCEPT ![ch.cells[c]] = BlockObj(TRUE, pz.rest)]]

\* the loop of Chunk._loadTileEntities over the stream data from idx on:
\* [err, heap]
RECURSIVE loadTileEntitiesLoop(_, _, _, _)
RECURSIVE loadTileEntitiesNext(_, _, _, _)
loadTileEntitiesNext(ch, hp, data, d) ==
  IF d.err # "" THEN [err |-> d.err, heap |-> hp]
  ELSE LET r == loadTileEntityStep(ch, hp, d.tag)
       IN  IF r.err # "" THEN r ELSE loadTileEntitiesLoop(ch, r.heap, data, d.idx)

loadTileEntitiesLoop(ch, hp, data, idx) ==
  IF finished(data, idx) THEN [err |-> "", heap |-> hp]
  ELSE loadTileEntitiesNext(ch, hp, data, decode(data, idx))

\* Chunk.setBlock(x, y, z, block): subchunks are appended up to the one of y
setBlock(ch, c, o) ==
  [ch EXCEPT !.nsub = Max(@, (c[2] \div Side) + 1), !.cells[c] = o]

----------------------------------------------------------------------------
(* Inputs of the scenarios *)

MaxStrLen == 2    \* longest string tried (characters)
MaxItems == 2     \* longest list, byte array or compound tried
MaxPalette == 6   \* most distinct blocks in a volume handed to SubChunk.save
NumPatterns == 2  \* index patterns tried per palette size in _saveBlocks
MaxX == 0         \* largest x of the chunk cells followed
MaxSaves == 2     \* Chunk.save calls followed

\* 'a', U+00E9 (two UTF-8 bytes), U+20AC (three UTF-8 bytes)
Alphabet == {97, 233, 8364}

SeqsUpTo(S, n) == UNION {[1..k -> S] : k \in 0..n}

Strs == SeqsUpTo(Alphabet, MaxStrLen)

NoRes == [err |-> "unset", data |-> <<>>]
NoBack == [err |-> "unset", tag |-> NoTag, idx |-> 0]
NoLoad == LoadFail("unset")

\* tags without children, under the name nm
Leaves(nm) ==
  {TAG_Byte(nm, v) : v \in {-128, 127}} \cup
  {TAG_Short(nm, v) : v \in {-32768, 258}} \cup
  {TAG_Int(nm, v) : v \in {-2, 2147483647}} \cup
  {TAG_Long(nm, v) : v \in {-3, 16909060}} \cup
  {TAG_String(nm, t) : t \in Strs}

\* a few tags of each kind, under the name nm: what containers are filled with
Elems(nm) ==
  {TAG_Byte(nm, 5), TAG_Short(nm, -2),
   TAG_String(nm, <<97>>), TAG_String(nm, <<233, 97>>),
   TAG_List(nm, <<>>), TAG_List(nm, <<TAG_Int(PosName(0), 7)>>),
   TAG_Byte_Array(nm, <<TAG_Byte(PosName(0), -1)>>),
   TAG_Compound(nm, <<TAG_Long(StrName(<<120>>), 9)>>)}

\* sequences of 0..MaxItems elements, the k-th named by its position k - 1
PosSeqs(E) ==
  UNION {{[k \in 1..n |-> [f[k] EXCEPT !.name = PosName(k - 1)]] : f \in [1..n -> E]}
         : n \in 0..MaxItems}

\* sequences of 0..MaxItems children: each kind under the name "x", and one
\* child under a name with a three-byte character
ChildSeqs ==
  LET named == Elems(StrName(<<120>>)) \cup {TAG_Byte(StrName(<<8364>>), 5)}
  IN  UNION {[1..n -> named] : n \in 0..MaxItems}

RootNames == {StrName(<<>>), StrName(<<97, 233>>)}

\* the tag trees handed to nbt.encode
TagInputs ==
  UNION {Leaves(nm) \cup
         {TAG_List(nm, l) : l \in PosSeqs(Elems(StrName(<<>>)))} \cup
         {TAG_Byte_Array(nm, l) : l \in PosSeqs({TAG_Byte(StrName(<<>>), v) : v \in {-128, 3}})} \cup
         {TAG_Compound(nm, l) : l \in ChildSeqs}
         : nm \in RootNames}

\* The trees the format can hold: integers within their width, elements of
\* lists and byte arrays named by their position, lists of one kind, byte
\* arrays of TAG_Byte, children of compounds and the root named by strings.
RECURSIVE ValidPayload(_)
ValidPayload(t) ==
  CASE t.ID \in {1, 2} -> FitsFmt(Fmt(ScalarSize(t.ID)), t.num)
    [] t.ID \in {3, 4, 8} -> TRUE
    [] t.ID = 7 -> \A k \in 1..Len(t.items) :
                     /\ t.items[k].ID = 1 /\ t.items[k].name = PosName(k - 1)
                     /\ ValidPayload(t.items[k])
    [] t.ID = 9 -> \A k \in 1..Len(t.items) :
                     /\ t.items[k].ID = t.items[1].ID /\ t.items[k].name = PosName(k - 1)
                     /\ ValidPayload(t.items[k])
    [] t.ID = 10 -> \A k \in 1..Len(t.items) :
                     ~t.items[k].name.isPos /\ ValidPayload(t.items[k])

ValidTree(t) == ~t.name.isPos /\ ValidPayload(t)

\* block names tried: plain ASCII ones and one with a two-byte character
NameSets == <<
  << <<97>> >>,
  << <<109, 58, 97, 105, 114>>, <<115, 116>> >>,
  << <<233>>, <<97>> >> >>

AsciiStr(t) == \A k \in 1..Len(t) : t[k] < 128

\* data values tried: the ends of the signed 16-bit range first
DvOf(m) == CASE m = 0 -> 0 [] m = 1 -> -32768 [] m = 2 -> 32767 [] m = 3 -> -1 [] OTHER -> m

\* the k-th of the distinct blocks built from name set ns
BlockOf(ns, k) ==
  Block(NameSets[ns][(k % Len(NameSets[ns])) + 1], DvOf(k \div Len(NameSets[ns])))

\* a volume with exactly p distinct blocks: the block at (x, y, z) is chosen
\* by the position of the cell in one of two orders of the axes
Volume(p, pat, ns) ==
  [c \in Idx3 |->
     BlockOf(ns, (IF pat = 1 THEN c[1] * 256 + c[2] * 16 + c[3]
                  ELSE c[3] * 256 + c[1] * 16 + c[2]) % p)]

\* palette sizes handed to _saveBlocks: around every power of two up to 4096
PaletteSizes == {n \in UNION {{2 ^ k - 1, 2 ^ k, 2 ^ k + 1} : k \in 0..12} : n \in 1..NumBlocks}

\* 4096 block ids below p
IdPattern(p, pat) ==
  [n \in 1..NumBlocks |->
     CASE pat = 1 -> (n - 1) % p
       [] pat = 2 -> (p - 1) - (((n - 1) * 7) % p)
       [] OTHER -> ((n - 1) * (pat + 2) + ((n - 1) \div 16)) % p]

----------------------------------------------------------------------------
(* The scenarios *)

NoPacked == [palette |-> <<>>, size |-> 0, ids |-> <<>>]

\* the parts of the state a scenario does not use
NbtIdle ==
  /\ tag = NoTag /\ wire = NoRes /\ back = NoBack /\ str = <<>>
  /\ kindByte = 0 /\ kindCtx = "none"
SubIdle == vol = <<>> /\ packed = NoPacked /\ sbuf = NoRes /\ loaded = NoLoad
NoWritten == [err |-> "unset", data |-> <<>>, records |-> <<>>]
ChunkIdle == heap = <<>> /\ chunk = <<>> /\ written = NoWritten /\ saves = 0

nbtVars == <<tag, wire, back, str, kindByte, kindCtx>>
subVars == <<vol, packed, sbuf, loaded>>
chunkVars == <<heap, chunk, written, saves>>

\* --- nbt.encode / nbt.decode of a tag tree
InitNbt ==
  /\ mode = "nbt" /\ phase = "in"
  /\ tag \in TagInputs
  /\ wire = NoRes /\ back = NoBack /\ cut = NoBack /\ str = <<>>
  /\ kindByte = 0 /\ kindCtx = "none"
  /\ SubIdle /\ ChunkIdle

\* data = nbt.encode(tag)
NbtEncode ==
  /\ mode = "nbt" /\ phase = "in"
  /\ wire' = encode(tag, <<>>)
  /\ phase' = "encoded"
  /\ UNCHANGED <<mode, tag, back, cut, str, kindByte, kindCtx, subVars, chunkVars>>

\* nbt.decode(DataReader(data)), for the bytes of a tree the format can hold
NbtDecode ==
  /\ mode = "nbt" /\ phase = "encoded" /\ wire.err = "" /\ ValidTree(tag)
  /\ back' = decode(wire.data, 0)
  /\ phase' = "decoded"
  /\ UNCHANGED <<mode, tag, wire, cut, str, kindByte, kindCtx, subVars, chunkVars>>

\* nbt.decode(DataReader(data[:-1]))
NbtDecodeCut ==
  /\ mode = "nbt" /\ phase = "decoded"
  /\ cut' = decode(Slice(wire.data, 0, Len(wire.data) - 1), 0)
  /\ phase' = "cut"
  /\ UNCHANGED <<mode, tag, wire, back, str, kindByte, kindCtx, subVars, chunkVars>>

\* --- DataWriter.putString / DataReader.popString of one string
InitStr ==
  /\ mode = "str" /\ phase = "in"
  /\ str \in Strs
  /\ tag = NoTag /\ wire = NoRes /\ back = NoBack /\ cut = NoBack
  /\ kindByte = 0 /\ kindCtx = "none"
  /\ SubIdle /\ ChunkIdle

\* DataWriter().putString(str)
StrPut ==
  /\ mode = "str" /\ phase = "in"
  /\ wire' = putString(<<>>, str)
  /\ phase' = "encoded"
  /\ UNCHANGED <<mode, tag, back, cut, str, kindByte, kindCtx, subVars, chunkVars>>

\* DataReader(data).popString(); the result is kept in back with the string
\* as the text of a nameless TAG_String
StrPop ==
  /\ mode = "str" /\ phase = "encoded" /\ wire.err = ""
  /\ LET r == popString(wire.data, 0)
     IN  back' = [err |-> r.err, tag |-> TAG_String(StrName(<<>>), r.str), idx |-> r.idx]
  /\ phase' = "decoded"
  /\ UNCHANGED <<mode, tag, wire, cut, str, kindByte, kindCtx, subVars, chunkVars>>

\* --- nbt.decode of a buffer whose kind byte is any of the 256 byte values
\* enough zero bytes for an empty name and the payload of any kind
Zeros == [k \in 1..12 |-> 0]

\* the buffer with the byte d as the kind of the root tag, of the only child
\* of a compound, or of the one element of a list
KindBuffer(d, ctx) ==
  CASE ctx = "top"      -> <<d>> \o Zeros
    [] ctx = "compound" -> <<10, 0, 0, d>> \o Zeros
    [] ctx = "list"     -> <<9, 0, 0, d, 1, 0, 0, 0>> \o Zeros

InitKind ==
  /\ mode = "kind" /\ phase = "encoded"
  /\ kindByte \in 0..255
  /\ kindCtx \in {"top", "compound", "list"}
  /\ wire = [err |-> "", data |-> KindBuffer(kindByte, kindCtx)]
  /\ tag = NoTag /\ back = NoBack /\ cut = NoBack /\ str = <<>>
  /\ SubIdle /\ ChunkIdle

\* nbt.decode(DataReader(data))
KindDecode ==
  /\ mode = "kind" /\ phase = "encoded"
  /\ back' = decode(wire.data, 0)
  /\ phase' = "decoded"
  /\ UNCHANGED <<mode, tag, wire, cut, str, kindByte, kindCtx, subVars, chunkVars>>

\* --- SubChunk.save and SubChunk.__init__ of one volume
InitSub ==
  /\ mode = "sub" /\ phase = "in"
  /\ \E p \in 1..MaxPalette, pat \in 1..2, ns \in 1..Len(NameSets) :
       vol = Volume(p, pat, ns)
  /\ packed = NoPacked /\ sbuf = NoRes /\ loaded = NoLoad /\ cut = NoBack
  /\ NbtIdle /\ ChunkIdle

\* subchunk.save(db): packed keeps what _savePalette returned
SubSave ==
  /\ mode = "sub" /\ phase = "in"
  /\ LET r == save(8, vol)
     IN  /\ packed' = [palette |-> r.palette, size |-> Len(r.palette), ids |-> r.ids]
         /\ sbuf' = [err |-> r.err, data |-> r.data]
  /\ phase' = "saved"
  /\ UNCHANGED <<mode, vol, loaded, cut, nbtVars, chunkVars>>

\* SubChunk(db, x, z, y) over the saved value
SubLoad ==
  /\ mode = "sub" /\ phase = "saved" /\ sbuf.err = ""
  /\ loaded' = load(sbuf.data)
  /\ phase' = "loaded"
  /\ UNCHANGED <<mode, vol, packed, sbuf, cut, nbtVars, chunkVars>>

\* SubChunk(db, x, z, y) over the saved value without its last byte; the
\* outcome is kept in cut, the volume (if any) as its tag is not needed
SubLoadCut ==
  /\ mode = "sub" /\ phase = "loaded"
  /\ LET r == load(Slice(sbuf.data, 0, Len(sbuf.data) - 1))
     IN  cut' = [err |-> r.err, tag |-> NoTag, idx |-> 0]
  /\ phase' = "cut"
  /\ UNCHANGED <<mode, vol, packed, sbuf, loaded, nbtVars, chunkVars>>

\* --- SubChunk._saveBlocks and SubChunk._loadBlocks of one id sequence
InitBits ==
  /\ mode = "bits" /\ phase = "in"
  /\ \E p \in PaletteSizes, pat \in 1..NumPatterns :
       packed = [palette |-> <<>>, size |-> p, ids |-> IdPattern(p, pat)]
  /\ vol = <<>> /\ sbuf = NoRes /\ loaded = NoLoad /\ cut = NoBack
  /\ NbtIdle /\ ChunkIdle

\* self._saveBlocks(paletteSize, blockIDs)
BitsSave ==
  /\ mode = "bits" /\ phase = "in"
  /\ sbuf' = saveBlocks(packed.size, packed.ids)
  /\ phase' = "saved"
  /\ UNCHANGED <<mode, vol, packed, loaded, cut, nbtVars, chunkVars>>

\* self._loadBlocks(data)
BitsLoad ==
  /\ mode = "bits" /\ phase = "saved" /\ sbuf.err = ""
  /\ LET r == loadBlocks(sbuf.data)
     IN  loaded' = [err |-> r.err, blocks |-> <<>>, ids |-> r.blocks, palette |-> r.rest]
  /\ phase' = "loaded"
  /\ UNCHANGED <<mode, vol, packed, sbuf, cut, nbtVars, chunkVars>>

\* --- Chunk.setBlock and Chunk.save on one chunk
\* the cells followed: two columns of x, one cell in each of two subchunks
ChunkCells == {<<x, y, 2>> : x \in 0..MaxX, y \in {0, 17}}

\* the cell whose tile entity the stored chunk may hold
LoadedCell == <<0, 0, 2>>

\* Block objects: 1 is a block without nbt (every cell not set otherwise),
\* 2 and 3 are blocks with nbt that the caller holds and may place, 4 is
\* the Block that SubChunk.__init__ built for LoadedCell
Heap0 ==
  <<BlockObj(FALSE, NoTag),
    BlockObj(TRUE, TAG_Compound(StrName(<<>>),
                     <<TAG_String(StrName(<<105, 100>>), <<67>>)>>)),
    BlockObj(TRUE, TAG_Compound(StrName(<<>>), <<>>)),
    BlockObj(FALSE, NoTag)>>

\* the tile-entity stream of a stored chunk at (cx, cz): one record for
\* LoadedCell, or none
StoredStream(cx, cz, withTE) ==
  IF withTE
  THEN encode(TAG_Compound(StrName(<<>>),
                <<TAG_String(StrName(<<105, 100>>), <<76>>),
                  TAG_Int(NameX, cx * Side + LoadedCell[1]),
                  TAG_Int(NameY, LoadedCell[2]),
                  TAG_Int(NameZ, cz * Side + LoadedCell[3])>>), <<>>).data
  ELSE <<>>

\* Chunk(db, x, z): the subchunks are there, _loadTileEntities has run
InitChunk ==
  /\ mode = "chunk" /\ phase = "open"
  /\ \E cx \in {0, -1}, n \in 0..2, withTE \in BOOLEAN :
       /\ withTE => n >= 1
       /\ chunk = [x |-> cx, z |-> 2 + cx, nsub |-> n,
                   cells |-> [c \in ChunkCells |->
                                IF withTE /\ c = LoadedCell THEN 4 ELSE 1]]
       /\ heap = loadTileEntitiesLoop(chunk, Heap0,
                                      StoredStream(cx, 2 + cx, withTE), 0).heap
  /\ written = NoWritten /\ saves = 0 /\ cut = NoBack
  /\ NbtIdle /\ SubIdle

\* chunk.setBlock(x, y, z, block) with one of the blocks the caller holds
ChunkSetBlock ==
  /\ mode = "chunk"
  /\ \E c \in ChunkCells, o \in 1..3 : chunk' = setBlock(chunk, c, o)
  /\ UNCHANGED <<mode, phase, heap, written, saves, cut, nbtVars, subVars>>

\* chunk.save(db), as World.save calls it for every chunk: the tile-entity
\* part.  The version and subchunk keys it also puts are not followed here.
ChunkSave ==
  /\ mode = "chunk" /\ saves < MaxSaves
  /\ LET r == saveTileEntities(chunk, heap)
     IN  /\ heap' = r.heap
         /\ written' = [err |-> r.w.err, data |-> r.w.data, records |-> r.records]
  /\ saves' = saves + 1
  /\ UNCHANGED <<mode, phase, chunk, cut, nbtVars, subVars>>

NextChunk == ChunkSetBlock \/ ChunkSave
SpecChunk == InitChunk /\ [][NextChunk]_vars

InitCodec == InitNbt \/ InitStr \/ InitKind
NextCodec == NbtEncode \/ NbtDecode \/ NbtDecodeCut \/ StrPut \/ StrPop \/ KindDecode
SpecCodec == InitCodec /\ [][NextCodec]_vars

NextSub == SubSave \/ SubLoad \/ SubLoadCut
SpecSub == InitSub /\ [][NextSub]_vars

NextBits == BitsSave \/ BitsLoad
SpecBits == InitBits /\ [][NextBits]_vars

SpecTrunc ==
  (InitNbt \/ InitSub) /\
  [][NbtEncode \/ NbtDecode \/ NbtDecodeCut \/ SubSave \/ SubLoad \/ SubLoadCut]_vars

----------------------------------------------------------------------------
(* Properties *)

StrOnly(t) == t.ID # 8 \/ AsciiStr(t.text)

\* every string of the tree, names included, is plain ASCII
RECURSIVE AsciiTree(_)
AsciiTree(t) ==
  /\ AsciiStr(t.name.s) /\ StrOnly(t)
  /\ \A k \in 1..Len(t.items) : AsciiTree(t.items[k])

\* C1: every valid tag tree encodes, and decoding the encoded bytes gives a
\* tag equal to it under TAG.__eq__ with the reader finished.
C1_TagRoundTrip ==
  (mode = "nbt" /\ ValidTree(tag)) =>
    /\ phase # "in" => wire.err = ""
    /\ phase \in {"decoded", "cut"} =>
         /\ back.err = ""
         /\ TagEq(back.tag, tag)
         /\ finished(wire.data, back.idx)

\* The round trip of C1 as the code does provide it: for the valid trees
\* whose strings are all ASCII.
AsciiTagRoundTrip ==
  (mode = "nbt" /\ ValidTree(tag) /\ AsciiTree(tag)) =>
    /\ phase # "in" => wire.err = ""
    /\ phase \in {"decoded", "cut"} =>
         /\ back.err = ""
         /\ TagEq(back.tag, tag)
         /\ finished(wire.data, back.idx)

\* C2: every volume saves, and the subchunk loaded from the saved bytes
\* holds at every (x, y, z) a block of the same name and data value.
C2_SubchunkRoundTrip ==
  mode = "sub" =>
    /\ phase # "in" => sbuf.err = ""
    /\ phase \in {"loaded", "cut"} =>
         /\ loaded.err = ""
         /\ \A c \in Idx3 :
              /\ getBlock(loaded.blocks, c[1], c[2], c[3]).name = vol[c].name
              /\ getBlock(loaded.blocks, c[1], c[2], c[3]).dv = vol[c].dv

\* The round trip of C2 for the volumes whose block names are all ASCII.
AsciiSubchunkRoundTrip ==
  (mode = "sub" /\ \A c \in Idx3 : AsciiStr(vol[c].name)) =>
    /\ phase # "in" => sbuf.err = ""
    /\ phase \in {"loaded", "cut"} =>
         /\ loaded.err = ""
         /\ \A c \in Idx3 : getBlock(loaded.blocks, c[1], c[2], c[3]) = vol[c]

\* C3: decoding the bytes that nbt.encode gave for a valid tag tree, or that
\* SubChunk.save gave for a volume, with the last byte removed raises an
\* error; no tag and no volume is returned.
C3_TruncationIsError ==
  (phase = "cut" /\ (mode = "nbt" => ValidTree(tag))) => cut.err # ""

\* C3 witness: a compound with children was encoded, decoded in full without
\* error, and the decode of the bytes short of the last one was refused by
\* struct.
C3_Witness ==
  /\ mode = "nbt" /\ phase = "cut" /\ ValidTree(tag)
  /\ tag.ID = 10 /\ Len(tag.items) = MaxItems
  /\ back.err = "" /\ cut.err = "struct.error"

\* C3 for the subchunk buffers: reached too
TruncatedSubchunkRefused ==
  mode = "sub" /\ phase = "cut" /\ loaded.err = "" /\ cut.err = "struct.error"

SupportedKinds == {1, 2, 3, 4, 7, 8, 9, 10}

\* C4: a kind byte outside the eight supported kinds makes the decode fail
\* (any exception is taken for the unsupported-kind error), whether it is
\* the kind of the root, of a child of a compound or of the elements of a
\* non-empty list.  The byte 0 as the kind of a compound's child is the
\* terminator of the compound and is not covered.
C4_ClosedKindSet ==
  (/\ mode = "kind" /\ phase = "decoded"
   /\ kindByte \notin SupportedKinds
   /\ ~(kindCtx = "compound" /\ kindByte = 0)) => back.err # ""

\* the last n bytes of a buffer
LastBytes(data, n) == Slice(data, Len(data) - n, Len(data))

\* C5 as claimed: an empty list is encoded with the kind byte 1 (TAG_Byte)
\* and a 4-byte count of 0.
C5_EmptyListByteKind ==
  (mode = "nbt" /\ phase # "in" /\ tag.ID = 9 /\ tag.items = <<>>) =>
    wire.err = "" /\ LastBytes(wire.data, 5) = <<1, 0, 0, 0, 0>>

\* C5 as amended: an empty list is encoded with the kind byte 0 (TAG_End)
\* and a 4-byte count of 0.
C5_EmptyListEndKind ==
  (mode = "nbt" /\ phase # "in" /\ tag.ID = 9 /\ tag.items = <<>>) =>
    wire.err = "" /\ LastBytes(wire.data, 5) = <<0, 0, 0, 0, 0>>

\* C5 witness: an empty list has been encoded
C5_Witness ==
  mode = "nbt" /\ phase = "encoded" /\ tag.ID = 9 /\ tag.items = <<>> /\ wire.err = ""

\* C6: encoding a list whose elements are not all of one kind fails and
\* gives no buffer.
C6_HeterogeneousRejected ==
  (/\ mode = "nbt" /\ phase # "in" /\ tag.ID = 9
   /\ \E k \in 1..Len(tag.items) : tag.items[k].ID # tag.items[1].ID) =>
    wire.err # ""

\* the least b >= 1 with 2^b >= p: max(ceil(log2(p)), 1)
BitsFor(p) == CHOOSE b \in 1..12 : 2 ^ b >= p /\ (b = 1 \/ 2 ^ (b - 1) < p)

\* the least n with n * k >= 4096: ceil(4096 / k)
WordsFor(k) == CHOOSE n \in 1..NumBlocks : n * k >= NumBlocks /\ (n - 1) * k < NumBlocks

\* C7: for a palette size p and 4096 ids below p, _saveBlocks writes the
\* header byte bits << 1 with bits = max(ceil(log2(p)), 1) and
\* ceil(4096 / (32 // bits)) words, and _loadBlocks over these bytes gives
\* back the ids in their order and leaves nothing unread.
C7_BitPacking ==
  mode = "bits" =>
    /\ \A n \in 1..NumBlocks : packed.ids[n] \in 0..(packed.size - 1)
    /\ phase # "in" =>
         /\ sbuf.err = ""
         /\ sbuf.data[1] = 2 * BitsFor(packed.size)
         /\ Len(sbuf.data) = 1 + 4 * WordsFor(32 \div BitsFor(packed.size))
    /\ phase = "loaded" =>
         /\ loaded.err = ""
         /\ loaded.ids = packed.ids
         /\ loaded.palette = <<>>

\* C7 witness: five distinct ids, so three bits per block, ten blocks per
\* word and a last word that is only partly used, have been packed and
\* unpacked
C7_Witness ==
  /\ mode = "bits" /\ phase = "loaded" /\ packed.size = 5
  /\ sbuf.data[1] = 6 /\ Len(sbuf.data) = 1 + 4 * 410
  /\ loaded.ids = packed.ids /\ loaded.ids[NumBlocks] # 0

\* the flat position of the wire for the cell c = (x, y, z)
WirePos(c) == c[1] * 256 + c[3] * 16 + c[2]

\* C8: the index that _savePalette produces at flat position
\* x*256 + z*16 + y is that of the block at (x, y, z), and the block that a
\* loaded subchunk returns for (x, y, z) is the palette entry that the index
\* at flat position x*256 + z*16 + y of the stored bytes points to.
C8_AxisExchange ==
  mode = "sub" =>
    /\ phase # "in" =>
         \A c \in Idx3 :
           packed.palette[packed.ids[WirePos(c) + 1] + 1] = PaletteTag(vol[c])
    /\ (phase \in {"loaded", "cut"} /\ loaded.err = "") =>
         \A c \in Idx3 :
           PaletteTag(getBlock(loaded.blocks, c[1], c[2], c[3]))
             = loaded.palette[loaded.ids[WirePos(c) + 1] + 1]

\* C8 witness: a volume that differs between (0, 1, 0) and (0, 0, 1) has
\* been saved and loaded
C8_Witness ==
  /\ mode = "sub" /\ phase = "loaded" /\ loaded.err = ""
  /\ vol[<<0, 1, 0>>] # vol[<<0, 0, 1>>]
  /\ getBlock(loaded.blocks, 0, 1, 0) # getBlock(loaded.blocks, 0, 0, 1)

\* C9: putString writes the UTF-8 length of the string as a 16-bit
\* little-endian prefix and then its UTF-8 bytes, and popString over these
\* bytes gives the string back.
C9_StringPrefix ==
  mode = "str" =>
    /\ phase # "in" =>
         /\ wire.err = ""
         /\ wire.data = LEBytes(Len(Utf8Encode(str)), 2) \o Utf8Encode(str)
    /\ phase = "decoded" => back.err = "" /\ back.tag.text = str

\* C9 for ASCII strings, which the code does provide
AsciiStringPrefix ==
  (mode = "str" /\ AsciiStr(str)) =>
    /\ phase # "in" =>
         /\ wire.err = ""
         /\ wire.data = LEBytes(Len(Utf8Encode(str)), 2) \o Utf8Encode(str)
    /\ phase = "decoded" => back.err = "" /\ back.tag.text = str

\* the children of the compound t that are named nm
Named(t, nm) == {k \in 1..Len(t.items) : t.items[k].name = nm}

\* the compound t has exactly one child named nm, a TAG_Int of value v
OneCoord(t, nm, v) ==
  /\ Cardinality(Named(t, nm)) = 1
  /\ \A k \in Named(t, nm) : t.items[k] = TAG_Int(nm, v)

\* C10: every record that _saveTileEntities writes has exactly one child x,
\* one y and one z, holding the coordinates of the cell it is written for,
\* and no compound in memory holds more than one of each.
C10_PositionTagsSingle ==
  mode = "chunk" =>
    /\ written.err \in {"", "unset"}
    /\ \A k \in 1..Len(written.records) :
         /\ OneCoord(written.records[k].tag, NameX, written.records[k].cell[1])
         /\ OneCoord(written.records[k].tag, NameY, written.records[k].cell[2])
         /\ OneCoord(written.records[k].tag, NameZ, written.records[k].cell[3])
    /\ \A o \in 1..Len(heap) :
         heap[o].hasNbt =>
           \A nm \in {NameX, NameY, NameZ} : Cardinality(Named(heap[o].nbt, nm)) <= 1

====
